---- MODULE Spec2Model ----
(***************************************************************************)
(* little_science_utilities: the style registry and the Styles context     *)
(* manager of themes.py, and the ScienceLogger of utils.py.                *)
(*                                                                         *)
(* Python values are written as the text of their repr; a Python dict is a *)
(* function from its keys to its values, and {**a, **b} is  b @@ a.        *)
(***************************************************************************)
EXTENDS Integers, Sequences, FiniteSets, TLC

\* ---------------------------------------------------------------- bounds
\* longest list of style names given to Styles(...)
MaxNames == 2
\* deepest nesting of with-blocks
MaxDepth == 3

\* ------------------------------------------------- themes.py: the presets
\* themes.py:212-232
PY_GRID ==
    "figure.facecolor" :> "'white'" @@
    "axes.grid" :> "True" @@
    "grid.linestyle" :> "'-'" @@
    "grid.linewidth" :> "1.5" @@
    "grid.color" :> "(0.8823529411764706, 0.8823529411764706, 0.8823529411764706)" @@
    "axes.linewidth" :> "2" @@
    "lines.solid_capstyle" :> "'round'" @@
    "axes.facecolor" :> "'white'" @@
    "xtick.major.size" :> "0" @@
    "xtick.minor.size" :> "0" @@
    "ytick.major.size" :> "0" @@
    "ytick.minor.size" :> "0" @@
    "axes.axisbelow" :> "True" @@
    "axes.spines.left" :> "True" @@
    "axes.spines.bottom" :> "True" @@
    "axes.spines.top" :> "True" @@
    "axes.spines.right" :> "True" @@
    "axes.xmargin" :> "0" @@
    "axes.ymargin" :> "0.05"

\* themes.py:235-255
FOV_GRID ==
    "figure.facecolor" :> "'white'" @@
    "axes.grid" :> "True" @@
    "grid.linestyle" :> "'--'" @@
    "grid.linewidth" :> "1.5" @@
    "grid.alpha" :> "0.25" @@
    "axes.linewidth" :> "2" @@
    "lines.solid_capstyle" :> "'round'" @@
    "axes.facecolor" :> "'white'" @@
    "axes.axisbelow" :> "True" @@
    "axes.spines.left" :> "True" @@
    "axes.spines.bottom" :> "True" @@
    "axes.spines.top" :> "True" @@
    "axes.spines.right" :> "True" @@
    "axes.xmargin" :> "0" @@
    "axes.ymargin" :> "0.05" @@
    "xtick.major.size" :> "0" @@
    "xtick.minor.size" :> "0" @@
    "ytick.major.size" :> "0" @@
    "ytick.minor.size" :> "0"

\* themes.py:258-275
XYZ_FOV ==
    "figure.facecolor" :> "'white'" @@
    "axes.grid" :> "False" @@
    "axes.linewidth" :> "2" @@
    "lines.solid_capstyle" :> "'round'" @@
    "axes.facecolor" :> "'white'" @@
    "axes.axisbelow" :> "True" @@
    "axes.spines.left" :> "True" @@
    "axes.spines.bottom" :> "True" @@
    "axes.spines.top" :> "True" @@
    "axes.spines.right" :> "True" @@
    "axes.xmargin" :> "0" @@
    "axes.ymargin" :> "0.05" @@
    "xtick.major.size" :> "0" @@
    "xtick.minor.size" :> "0" @@
    "ytick.major.size" :> "0" @@
    "ytick.minor.size" :> "0"

\* themes.py:278-298
D3_GRID ==
    "figure.facecolor" :> "'white'" @@
    "axes.grid" :> "True" @@
    "grid.linestyle" :> "'--'" @@
    "grid.linewidth" :> "1.5" @@
    "grid.alpha" :> "0.25" @@
    "axes.linewidth" :> "2" @@
    "lines.solid_capstyle" :> "'round'" @@
    "axes.facecolor" :> "'white'" @@
    "axes.axisbelow" :> "True" @@
    "axes.spines.left" :> "True" @@
    "axes.spines.bottom" :> "True" @@
    "axes.spines.top" :> "True" @@
    "axes.spines.right" :> "True" @@
    "axes.xmargin" :> "0" @@
    "axes.ymargin" :> "0" @@
    "xtick.major.size" :> "0" @@
    "xtick.minor.size" :> "0" @@
    "ytick.major.size" :> "0" @@
    "ytick.minor.size" :> "0"

\* themes.py:301-318
BLANK ==
    "figure.facecolor" :> "'white'" @@
    "axes.grid" :> "False" @@
    "axes.linewidth" :> "0" @@
    "lines.solid_capstyle" :> "'round'" @@
    "axes.facecolor" :> "'white'" @@
    "axes.axisbelow" :> "True" @@
    "axes.spines.left" :> "False" @@
    "axes.spines.bottom" :> "False" @@
    "axes.spines.top" :> "False" @@
    "axes.spines.right" :> "False" @@
    "axes.xmargin" :> "0" @@
    "axes.ymargin" :> "0" @@
    "xtick.major.size" :> "0" @@
    "xtick.minor.size" :> "0" @@
    "ytick.major.size" :> "0" @@
    "ytick.minor.size" :> "0"

\* themes.py:321-341
SINGLE_PANEL_PUB ==
    "figure.figsize" :> "(2.1653543307086616, 2.0078740157480315)" @@
    "axes.labelsize" :> "7" @@
    "xtick.labelsize" :> "6" @@
    "ytick.labelsize" :> "6" @@
    "legend.fontsize" :> "7" @@
    "font.size" :> "7" @@
    "font.family" :> "'sans-serif'" @@
    "font.sans-serif" :> "['Arial']" @@
    "mathtext.fontset" :> "'dejavusans'" @@
    "axes.linewidth" :> "0.5" @@
    "grid.linewidth" :> "0.5" @@
    "lines.linewidth" :> "1.0" @@
    "lines.markersize" :> "3" @@
    "xtick.direction" :> "'out'" @@
    "ytick.direction" :> "'out'"

\* themes.py:344-364
TWO_PANEL_PUB_WIDE ==
    "figure.figsize" :> "(4.724409448818898, 2.0078740157480315)" @@
    "axes.labelsize" :> "7" @@
    "xtick.labelsize" :> "6" @@
    "ytick.labelsize" :> "6" @@
    "legend.fontsize" :> "7" @@
    "font.size" :> "7" @@
    "font.family" :> "'sans-serif'" @@
    "font.sans-serif" :> "['Arial']" @@
    "mathtext.fontset" :> "'dejavusans'" @@
    "axes.linewidth" :> "0.5" @@
    "grid.linewidth" :> "0.5" @@
    "lines.linewidth" :> "1.0" @@
    "lines.markersize" :> "3" @@
    "xtick.direction" :> "'out'" @@
    "ytick.direction" :> "'out'"

\* themes.py:414-456
PUB2 ==
    "axes.labelsize" :> "7" @@
    "xtick.labelsize" :> "6" @@
    "ytick.labelsize" :> "6" @@
    "legend.fontsize" :> "7" @@
    "font.size" :> "7" @@
    "font.family" :> "'sans-serif'" @@
    "font.sans-serif" :> "['DejaVu Sans', 'Arial', 'Helvetica', 'Lucida Grande', 'Verdana', 'Geneva', 'Lucid', 'Avant Garde', 'sans-serif']" @@
    "mathtext.fontset" :> "'dejavusans'" @@
    "axes.linewidth" :> "0.5" @@
    "grid.linewidth" :> "0.5" @@
    "lines.linewidth" :> "1.0" @@
    "lines.markersize" :> "3" @@
    "xtick.direction" :> "'out'" @@
    "xtick.major.size" :> "3" @@
    "xtick.major.width" :> "0.5" @@
    "xtick.minor.size" :> "1.5" @@
    "xtick.minor.width" :> "0.5" @@
    "xtick.minor.visible" :> "True" @@
    "xtick.top" :> "False" @@
    "ytick.direction" :> "'out'" @@
    "ytick.major.size" :> "3" @@
    "ytick.major.width" :> "0.5" @@
    "ytick.minor.size" :> "1.5" @@
    "ytick.minor.width" :> "0.5" @@
    "ytick.minor.visible" :> "True" @@
    "ytick.right" :> "False" @@
    "legend.frameon" :> "False" @@
    "axes.spines.top" :> "False" @@
    "axes.spines.right" :> "False"

\* themes.py:459-495
PUB_IMAGE ==
    "axes.labelsize" :> "7" @@
    "xtick.labelsize" :> "0" @@
    "ytick.labelsize" :> "0" @@
    "legend.fontsize" :> "7" @@
    "font.size" :> "7" @@
    "font.family" :> "'sans-serif'" @@
    "font.sans-serif" :> "['Arial']" @@
    "mathtext.fontset" :> "'dejavusans'" @@
    "axes.linewidth" :> "0.5" @@
    "grid.linewidth" :> "0.5" @@
    "lines.linewidth" :> "1.0" @@
    "lines.markersize" :> "3" @@
    "xtick.direction" :> "'out'" @@
    "xtick.major.size" :> "0" @@
    "xtick.major.width" :> "0" @@
    "xtick.minor.size" :> "0" @@
    "xtick.minor.width" :> "0" @@
    "xtick.minor.visible" :> "False" @@
    "xtick.top" :> "False" @@
    "ytick.direction" :> "'out'" @@
    "ytick.major.size" :> "0" @@
    "ytick.major.width" :> "0" @@
    "ytick.minor.size" :> "0" @@
    "ytick.minor.width" :> "0" @@
    "ytick.minor.visible" :> "False" @@
    "ytick.right" :> "False" @@
    "legend.frameon" :> "False" @@
    "axes.spines.top" :> "False" @@
    "axes.spines.right" :> "False" @@
    "axes.spines.left" :> "False" @@
    "axes.spines.bottom" :> "False"

\* themes.py:498-542
PUB_IMAGE_BOUNDS ==
    "axes.labelsize" :> "7" @@
    "xtick.labelsize" :> "6" @@
    "ytick.labelsize" :> "6" @@
    "legend.fontsize" :> "7" @@
    "font.size" :> "7" @@
    "font.family" :> "'sans-serif'" @@
    "font.sans-serif" :> "['DejaVu Sans', 'Arial', 'Helvetica', 'Lucida Grande', 'Verdana', 'Geneva', 'Lucid', 'Avant Garde', 'sans-serif']" @@
    "mathtext.fontset" :> "'dejavusans'" @@
    "axes.linewidth" :> "0.5" @@
    "grid.linewidth" :> "0.5" @@
    "lines.linewidth" :> "1.0" @@
    "lines.markersize" :> "3" @@
    "xtick.direction" :> "'out'" @@
    "xtick.major.size" :> "0" @@
    "xtick.major.width" :> "0" @@
    "xtick.minor.size" :> "0" @@
    "xtick.minor.width" :> "0" @@
    "xtick.minor.visible" :> "False" @@
    "xtick.top" :> "False" @@
    "ytick.direction" :> "'out'" @@
    "ytick.major.size" :> "0" @@
    "ytick.major.width" :> "0" @@
    "ytick.minor.size" :> "0" @@
    "ytick.minor.width" :> "0" @@
    "ytick.minor.visible" :> "False" @@
    "ytick.right" :> "False" @@
    "legend.frameon" :> "False" @@
    "axes.spines.top" :> "True" @@
    "axes.spines.right" :> "True" @@
    "axes.spines.left" :> "True" @@
    "axes.spines.bottom" :> "True"

\* themes.py:545-581
PUB_EMPTY ==
    "axes.labelsize" :> "7" @@
    "xtick.labelsize" :> "0" @@
    "ytick.labelsize" :> "0" @@
    "legend.fontsize" :> "7" @@
    "font.size" :> "7" @@
    "font.family" :> "'sans-serif'" @@
    "font.sans-serif" :> "['Arial']" @@
    "mathtext.fontset" :> "'dejavusans'" @@
    "axes.linewidth" :> "0.5" @@
    "grid.linewidth" :> "0.5" @@
    "lines.linewidth" :> "1.0" @@
    "lines.markersize" :> "3" @@
    "xtick.direction" :> "'out'" @@
    "xtick.major.size" :> "0" @@
    "xtick.major.width" :> "0" @@
    "xtick.minor.size" :> "0" @@
    "xtick.minor.width" :> "0" @@
    "xtick.minor.visible" :> "False" @@
    "xtick.top" :> "False" @@
    "ytick.direction" :> "'out'" @@
    "ytick.major.size" :> "0" @@
    "ytick.major.width" :> "0" @@
    "ytick.minor.size" :> "0" @@
    "ytick.minor.width" :> "0" @@
    "ytick.minor.visible" :> "False" @@
    "ytick.right" :> "False" @@
    "legend.frameon" :> "False" @@
    "axes.spines.left" :> "False" @@
    "axes.spines.bottom" :> "False" @@
    "axes.spines.top" :> "False" @@
    "axes.spines.right" :> "False"

\* themes.py:584-619
PUB_VIOLIN ==
    "axes.labelsize" :> "7" @@
    "xtick.labelsize" :> "6" @@
    "ytick.labelsize" :> "6" @@
    "legend.fontsize" :> "7" @@
    "font.size" :> "7" @@
    "font.family" :> "'sans-serif'" @@
    "font.sans-serif" :> "['Arial']" @@
    "mathtext.fontset" :> "'dejavusans'" @@
    "axes.linewidth" :> "0.5" @@
    "grid.linewidth" :> "0.5" @@
    "lines.linewidth" :> "1.0" @@
    "lines.markersize" :> "3" @@
    "xtick.direction" :> "'out'" @@
    "xtick.major.size" :> "0" @@
    "xtick.major.width" :> "0" @@
    "xtick.minor.size" :> "0" @@
    "xtick.minor.width" :> "0" @@
    "xtick.minor.visible" :> "False" @@
    "xtick.top" :> "False" @@
    "ytick.direction" :> "'out'" @@
    "ytick.major.size" :> "3" @@
    "ytick.major.width" :> "0.5" @@
    "ytick.minor.size" :> "1.5" @@
    "ytick.minor.width" :> "0.5" @@
    "ytick.minor.visible" :> "False" @@
    "ytick.right" :> "False" @@
    "legend.frameon" :> "False" @@
    "axes.spines.bottom" :> "False" @@
    "axes.spines.top" :> "False" @@
    "axes.spines.right" :> "False"

\* themes.py:622-658
PUB_CLUSTER ==
    "axes.labelsize" :> "7" @@
    "xtick.labelsize" :> "6" @@
    "ytick.labelsize" :> "6" @@
    "legend.fontsize" :> "7" @@
    "font.size" :> "7" @@
    "font.family" :> "'sans-serif'" @@
    "font.sans-serif" :> "['Arial']" @@
    "mathtext.fontset" :> "'dejavusans'" @@
    "axes.linewidth" :> "0.5" @@
    "grid.linewidth" :> "0.5" @@
    "lines.linewidth" :> "1.0" @@
    "lines.markersize" :> "3" @@
    "xtick.direction" :> "'out'" @@
    "xtick.major.size" :> "0" @@
    "xtick.major.width" :> "0" @@
    "xtick.minor.size" :> "0" @@
    "xtick.minor.width" :> "0" @@
    "xtick.minor.visible" :> "False" @@
    "xtick.top" :> "False" @@
    "ytick.direction" :> "'out'" @@
    "ytick.major.size" :> "3" @@
    "ytick.major.width" :> "0.5" @@
    "ytick.minor.size" :> "1.5" @@
    "ytick.minor.width" :> "0.5" @@
    "ytick.minor.visible" :> "False" @@
    "ytick.right" :> "False" @@
    "legend.frameon" :> "False" @@
    "axes.spines.bottom" :> "False" @@
    "axes.spines.top" :> "False" @@
    "axes.spines.right" :> "False" @@
    "axes.spines.left" :> "False"

\* themes.py:661-694
PUB_BOX_PLOT ==
    "axes.labelsize" :> "7" @@
    "xtick.labelsize" :> "6" @@
    "ytick.labelsize" :> "6" @@
    "legend.fontsize" :> "7" @@
    "font.size" :> "7" @@
    "font.family" :> "'sans-serif'" @@
    "font.sans-serif" :> "['Arial']" @@
    "mathtext.fontset" :> "'dejavusans'" @@
    "axes.linewidth" :> "0.5" @@
    "grid.linewidth" :> "0.5" @@
    "lines.linewidth" :> "1.0" @@
    "lines.markersize" :> "3" @@
    "xtick.direction" :> "'out'" @@
    "xtick.major.size" :> "0" @@
    "xtick.major.width" :> "0" @@
    "xtick.minor.size" :> "0" @@
    "xtick.minor.width" :> "0" @@
    "xtick.minor.visible" :> "False" @@
    "xtick.top" :> "False" @@
    "ytick.direction" :> "'out'" @@
    "ytick.major.size" :> "3" @@
    "ytick.major.width" :> "0.5" @@
    "ytick.minor.size" :> "1.5" @@
    "ytick.minor.width" :> "0.5" @@
    "ytick.minor.visible" :> "True" @@
    "ytick.right" :> "False" @@
    "legend.frameon" :> "False" @@
    "axes.spines.bottom" :> "False" @@
    "axes.spines.top" :> "False" @@
    "axes.spines.right" :> "False"

\* themes.py:697-730
PUB_MAP ==
    "axes.labelsize" :> "7" @@
    "xtick.labelsize" :> "6" @@
    "ytick.labelsize" :> "6" @@
    "legend.fontsize" :> "7" @@
    "font.size" :> "7" @@
    "font.family" :> "'sans-serif'" @@
    "font.sans-serif" :> "['Arial']" @@
    "mathtext.fontset" :> "'dejavusans'" @@
    "axes.linewidth" :> "1.0" @@
    "grid.linewidth" :> "0.5" @@
    "lines.linewidth" :> "1.0" @@
    "lines.markersize" :> "3" @@
    "xtick.direction" :> "'out'" @@
    "xtick.major.size" :> "3" @@
    "xtick.major.width" :> "0.5" @@
    "xtick.minor.size" :> "1.5" @@
    "xtick.minor.width" :> "0.5" @@
    "xtick.minor.visible" :> "True" @@
    "xtick.top" :> "False" @@
    "ytick.direction" :> "'out'" @@
    "ytick.major.size" :> "3" @@
    "ytick.major.width" :> "0.5" @@
    "ytick.minor.size" :> "1.5" @@
    "ytick.minor.width" :> "0.5" @@
    "ytick.minor.visible" :> "True" @@
    "ytick.right" :> "False" @@
    "legend.frameon" :> "False" @@
    "axes.spines.bottom" :> "True" @@
    "axes.spines.top" :> "True" @@
    "axes.spines.right" :> "True"
\* themes.py:741-758  Styles.__styles__, the registry of presets by name
__styles__ ==
    "py-grid" :> PY_GRID @@
    "fov-grid-light" :> (("grid.color" :> "'white'") @@ FOV_GRID) @@
    "fov-grid-dark" :> (("grid.color" :> "'black'") @@ FOV_GRID) @@
    "xyz-fov" :> XYZ_FOV @@
    "d3-grid" :> D3_GRID @@
    "blank" :> BLANK @@
    "pub" :> SINGLE_PANEL_PUB @@
    "pub-wide" :> TWO_PANEL_PUB_WIDE @@
    "pub2" :> PUB2 @@
    "pub-empty" :> PUB_EMPTY @@
    "pub-violin" :> PUB_VIOLIN @@
    "pub-box" :> PUB_BOX_PLOT @@
    "pub-cluster" :> PUB_CLUSTER @@
    "pub-image" :> PUB_IMAGE @@
    "pub-image-bounds" :> PUB_IMAGE_BOUNDS @@
    "pub-map" :> PUB_MAP

\* themes.py:41-44  the values set_export_text_type writes
ExportTextType ==
    "pdf.fonttype" :> "42" @@
    "ps.fonttype" :> "42" @@
    "font.family" :> "'sans-serif'" @@
    "font.sans-serif" :> "['Arial']"

\* a set_export_text_type that only fills in flags that are not set yet
set_export_text_type_keep(rc) == rc @@ ExportTextType

\* themes.py:34-44  set_export_text_type, as a function of mpl.rcParams
set_export_text_type(rc) == ExportTextType @@ rc

\* the keys of mpl.rcParams that the library reads or writes
RcKeys == UNION {DOMAIN __styles__[s] : s \in DOMAIN __styles__}
              \cup DOMAIN ExportTextType

\* ------------------------------------------------------ themes.py: Styles
\* a name that is not a key of the registry
UnknownStyle == "no-such-style"

\* the names a caller may pass to Styles(...)
StyleArgs == DOMAIN __styles__ \cup {UnknownStyle}

\* the names used where scopes nest: a grid preset without font keys, a
\* preset whose font list differs from the forced one, and a preset that
\* overlaps both
ScopeArgs == {"py-grid", "pub2", "pub-empty"}

\* the Styles objects of the caller
ObjIds == {"A", "B"}

\* the non-empty lists of at most n names over S
NameLists(S, n) == UNION {[1..m -> S] : m \in 1..n}

\* a lookup written with dict.get(name, {}): an unknown name gives an empty
\* preset instead of an error
StyleLookupOrEmpty(name) ==
    IF name \in DOMAIN __styles__
    THEN [found |-> TRUE, preset |-> __styles__[name]]
    ELSE [found |-> TRUE, preset |-> <<>>]

\* themes.py:761, 766  self.__styles__[name]: the preset of a registered
\* name, KeyError for any other
StyleLookup(name) ==
    IF name \in DOMAIN __styles__
    THEN [found |-> TRUE, preset |-> __styles__[name]]
    ELSE [found |-> FALSE, preset |-> <<>>]

\* the loop with the two operands swapped: the last name wins
RECURSIVE MergeLoopLastWins(_, _, _)
MergeLoopLastWins(acc, style, i) ==
    IF i > Len(style) THEN acc
    ELSE MergeLoopLastWins(StyleLookup(style[i]).preset @@ acc, style, i + 1)

\* themes.py:765-766  the loop  _style = {**__styles__[style_], **_style}
RECURSIVE MergeLoop(_, _, _)
MergeLoop(acc, style, i) ==
    IF i > Len(style) THEN acc
    ELSE MergeLoop(acc @@ StyleLookup(style[i]).preset, style, i + 1)

\* themes.py:761-768  the dictionary Styles.__init__ stores in self.theme
MergedStyle(style) ==
    LET first == StyleLookup(style[1]).preset
    IN  IF Len(style) > 1 THEN MergeLoop(first, style, 1) ELSE first

\* themes.py:761-766  the registry lookups of __init__ that raise KeyError:
\* the first name, then every name of a longer list
InitRaisesKeyError(style) ==
    \/ ~StyleLookup(style[1]).found
    \/ /\ Len(style) > 1
       /\ \E i \in 1..Len(style) : ~StyleLookup(style[i]).found

\* self.theme: a dict, or None after __exit__ (themes.py:768, 794)
ThemeNone == [isNone |-> TRUE, dict |-> <<>>]
ThemeDict(d) == [isNone |-> FALSE, dict |-> d]

\* self._rc_context (themes.py:777): the generator of mpl.rc_context, which
\* holds the copy of rcParams taken on entry and restores it once
NoContext == [set |-> FALSE, orig |-> <<>>, done |-> FALSE]

\* a Styles object that has not been constructed
NoObject == [made |-> FALSE, theme |-> ThemeNone, ctx |-> NoContext]

\* mpl.rc_context(rc).__enter__(): rcParams.update(rc) when rc is truthy
rc_context_enter(rc, theme) ==
    IF theme.isNone \/ DOMAIN theme.dict = {} THEN rc ELSE theme.dict @@ rc

\* an __exit__ that never puts the copy back
rc_context_exit_keep(rc, ctx) == rc

\* mpl.rc_context(rc).__exit__(): the first call puts the copy back, a call
\* on a generator that has already finished changes nothing
rc_context_exit(rc, ctx) == IF ctx.done THEN rc ELSE ctx.orig @@ rc

\* themes.py:784-794  __exit__ has no return statement: it returns None, so
\* an exception raised in the block is not suppressed
ExitSuppresses == FALSE

\* the configurations a caller may start from: nothing set by the library,
\* or the export flags already in force
InitialRcParams ==
    { [k \in RcKeys |-> "rc-default"],
      set_export_text_type([k \in RcKeys |-> "rc-custom"]) }

\* ------------------------------------------------- utils.py: ScienceLogger
\* utils.py:120-123  Options
SKIP == 0
SHOW == 1
SAVE == 2
Options == {SKIP, SHOW, SAVE}

\* utils.py:151  ScienceLogger._LINE_LENGTH
_LINE_LENGTH == 80

\* "c" * n
RECURSIVE Rep(_, _)
Rep(c, n) == IF n <= 0 THEN "" ELSE c \o Rep(c, n - 1)

\* a header line that forgets to leave room for its two end characters
_HEADER_TooLong == "|" \o Rep("=", _LINE_LENGTH) \o "|"

\* utils.py:162-164  the banner lines set in __init__
_HEADER == "|" \o Rep("=", _LINE_LENGTH - 2) \o "|"
_SUBHEADER == "|" \o Rep("-", _LINE_LENGTH - 2) \o "|"
_DEMARCATOR == Rep("-", _LINE_LENGTH)

\* the run names given to ScienceLogger(name, ...)
RunNames == {"run1"}

\* the directory arguments: one that exists and one that does not
BaseDirectory == <<"base">>
MissingDirectory == <<"nowhere">>
DirectoryArgs == {BaseDirectory, MissingDirectory}

\* utils.py:202-212  data_directory, figures_directory, stats_file
data_directory(directory, name) == directory \o <<name, "data">>
figures_directory(directory, name) == directory \o <<name, "figures">>
stats_file(directory, name) ==
    directory \o <<name, "stats", name \o "_stats.txt">>

\* the directory that holds a path
Parent(path) == SubSeq(path, 1, Len(path) - 1)

\* every directory a run uses below the base directory
RunDirectories(name) ==
    { BaseDirectory \o <<name>>,
      data_directory(BaseDirectory, name),
      figures_directory(BaseDirectory, name),
      Parent(stats_file(BaseDirectory, name)) }

\* the text a message argument may be: a string, or a table of pandas or of
\* polars
StrArg(text) == [type |-> "str", data |-> text]
PandasArg(data) == [type |-> "pandas", data |-> data]
PolarsArg(data) == [type |-> "polars", data |-> data]
MessageArgs == {StrArg("n = 12"), PandasArg("results"), PolarsArg("results")}

\* tabulate(results, headers="keys", showindex=False, floatfmt=...,
\* tablefmt=..., maxcolwidths=...): the text of the table
tabulate(data, floatfmt, tablefmt, maxcolwidths) ==
    "table(" \o data \o ", floatfmt=" \o floatfmt \o ", tablefmt=" \o tablefmt
        \o ", maxcolwidths=" \o maxcolwidths \o ")"

\* utils.py:104-117  statistics_table_to_file with its default arguments
statistics_table_to_file(results) ==
    tabulate(results.data, ".3f", "heavy_grid", "10")

\* str(message) inside an f-string: a string is itself, a table is the
\* library's own rendering of the frame
FormatArg(message) ==
    IF message.type = "str" THEN message.data
    ELSE "repr(" \o message.type \o " " \o message.data \o ")"

\* f"{banner}\n{text}\n{banner}"  (utils.py:250, 259, 266, 273)
Wrapped(banner, text) == banner \o "\n" \o text \o "\n" \o banner

\* a message with no path in it, and the path of no file
NoPath == [dir |-> <<>>, file |-> <<>>]
TextMessage(text) == [text |-> text, path |-> NoPath]

\* the names given to figure(fig, name), as lists of characters
FigureNames == {<<>>, <<"f">>}

\* pathlib's suffix of a file name: from the last dot on, unless that dot is
\* the first or the last character
Suffix(file) ==
    LET dots == {i \in 1..Len(file) : file[i] = "."}
    IN  IF dots = {} THEN <<>>
        ELSE LET i == CHOOSE d \in dots : \A e \in dots : e <= d
             IN  IF 1 < i /\ i < Len(file)
                 THEN SubSeq(file, i, Len(file)) ELSE <<>>

\* pathlib's with_suffix: the name without its suffix, then the new one
WithSuffix(file, suffix) ==
    SubSeq(file, 1, Len(file) - Len(Suffix(file))) \o suffix

Pdf == <<".", "p", "d", "f">>

\* themes.py:60-61  the path export_for_pub hands to fig.savefig
export_for_pub_path(path) ==
    IF Suffix(path.file) # Pdf
    THEN [path EXCEPT !.file = WithSuffix(path.file, Pdf)]
    ELSE path

\* utils.py:235  figures_directory.joinpath(f"{name}.pdf")
FigurePath(directory, run, name) ==
    [dir |-> figures_directory(directory, run), file |-> name \o Pdf]

\* the entries that may lie below a data directory, and the names looked
\* for, as lists of characters
DataEntries == {<<"a", "1">>, <<"a", "2">>, <<"b">>}
DataNames == {<<"a">>, <<"b">>, <<"c">>}

\* the glob pattern *name*: the entry holds the name as a run of characters
GlobMatches(entry, name) ==
    \E i \in 0..(Len(entry) - Len(name)) :
        SubSeq(entry, i + 1, i + Len(name)) = name

\* what find_data returns: None, or a path
ReturnsNone == [none |-> TRUE, path |-> NoPath]
ReturnsPath(dir, entry) == [none |-> FALSE, path |-> [dir |-> dir, file |-> entry]]

\* a find_data that does what its warning says and uses the first match
find_data_takes_first(dir, data_name, matches) ==
    IF Cardinality(matches) > 1
    THEN [level |-> "WARNING", text |-> "Multiple files found for ",
          error |-> "none",
          returned |-> {ReturnsPath(dir, e) : e \in matches}]
    ELSE IF Cardinality(matches) = 0
    THEN [level |-> "ERROR", text |-> "No files found for ",
          error |-> "FileNotFoundError", returned |-> {}]
    ELSE [level |-> "none", text |-> "", error |-> "none",
          returned |-> {ReturnsPath(dir, e) : e \in matches}]

\* utils.py:219-230  the three branches of find_data over the set of
\* matches: the record it logs, the exception it raises and the values it
\* may return
find_data_branch(dir, data_name, matches) ==
    IF Cardinality(matches) > 1
    THEN [level |-> "WARNING", text |-> "Multiple files found for ",
          error |-> "none", returned |-> {ReturnsNone}]
    ELSE IF Cardinality(matches) = 0
    THEN [level |-> "ERROR", text |-> "No files found for ",
          error |-> "FileNotFoundError", returned |-> {}]
    ELSE [level |-> "none", text |-> "", error |-> "none",
          returned |-> {ReturnsPath(dir, e) : e \in matches}]

\* handlers of the logging module
ConsoleHandler == [kind |-> "console", path |-> <<>>]
FileHandler(path) == [kind |-> "file", path |-> path]

\* utils.py:126-147  ScienceConsoleFormatter.format
ConsoleFormat(msg) ==
    [msg EXCEPT !.text = "<BLUE><asctime>:\n" \o msg.text \o "<RESET>"]

\* logging.WARNING is the level of logging.lastResort
IsWarningOrAbove(level) == level \in {"WARNING", "ERROR"}

\* what Logger.info/warning/error writes to the console: once per console
\* handler, or through logging.lastResort when no handler exists at all
RECURSIVE HandlerConsoleWrites(_, _)
HandlerConsoleWrites(hs, msg) ==
    IF hs = <<>> THEN <<>>
    ELSE (IF Head(hs).kind = "console" THEN <<ConsoleFormat(msg)>> ELSE <<>>)
            \o HandlerConsoleWrites(Tail(hs), msg)

ConsoleWrites(hs, level, msg) ==
    IF hs = <<>>
    THEN IF IsWarningOrAbove(level) THEN <<msg>> ELSE <<>>
    ELSE HandlerConsoleWrites(hs, msg)

\* what it appends to the files: one line per file handler
RECURSIVE FileWrites(_, _, _)
FileWrites(fs, hs, msg) ==
    IF hs = <<>> THEN fs
    ELSE FileWrites(IF Head(hs).kind = "file"
                    THEN [fs EXCEPT ![Head(hs).path] = Append(@, msg)]
                    ELSE fs,
                    Tail(hs), msg)

\* a ScienceLogger that has not been constructed
NoLogger ==
    [made |-> FALSE, name |-> "", directory |-> <<>>,
     FIGURES |-> SKIP, STATISTICS |-> SKIP, INTEGRITY |-> SKIP]

\* the console test written over the same two thresholds as the file test
WantsConsoleNoFigures(figures, statistics, integrity) ==
    \E option \in {statistics, integrity} : option >= SHOW

\* utils.py:179-182  the test for the console handler
WantsConsole(figures, statistics, integrity) ==
    \E option \in {figures, statistics, integrity} : option >= SHOW

\* utils.py:188-190  the test for the file handler
WantsFile(figures, statistics, integrity) ==
    \E option \in {statistics, integrity} : option >= SAVE

\* the most handlers a named logger is given
MaxHandlers == 4
\* the most lines a log file is given
MaxFileRecords == 2

\* the file systems a run may start in: the base directory alone, the run
\* directories made by the caller, or those with a log file of an earlier
\* run
InitialFileSystems ==
    LET made == {BaseDirectory} \cup UNION {RunDirectories(n) : n \in RunNames}
    IN  { [dirs |-> {BaseDirectory}, files |-> <<>>],
          [dirs |-> made, files |-> <<>>],
          [dirs |-> made,
           files |-> [p \in {stats_file(BaseDirectory, n) : n \in RunNames}
                        |-> <<TextMessage("earlier run")>>]] }

VARIABLES
    rcParams,   \* mpl.rcParams, the global rendering configuration
    styles,     \* the Styles objects: theme and _rc_context
    stack,      \* the with-blocks that are open, innermost last
    exc,        \* an exception is propagating out of a with-block
    logger,     \* the ScienceLogger object of the caller
    handlers,   \* logging.getLogger(name).handlers, by name
    dirs,       \* the directories that exist
    files,      \* the log files that exist, with their lines
    datafiles,  \* the entries below the data directory of the run
    last        \* the operation that just ran, with its inputs and outcome

vars == <<rcParams, styles, stack, exc, logger, handlers, dirs, files,
          datafiles, last>>

stylesVars == <<styles, stack, exc>>
loggerVars == <<logger, handlers, dirs, files, datafiles>>

\* nothing constructed yet, any of the starting file systems
Init ==
    /\ rcParams \in InitialRcParams
    /\ styles = [o \in ObjIds |-> NoObject]
    /\ stack = <<>>
    /\ exc = FALSE
    /\ logger = NoLogger
    /\ handlers = [n \in RunNames |-> <<>>]
    /\ \E fs \in InitialFileSystems : dirs = fs.dirs /\ files = fs.files
    /\ datafiles = {}
    /\ last = [op |-> "start"]

\* the same with the run directories in place and no log file
InitStyles ==
    /\ Init
    /\ dirs # {BaseDirectory}
    /\ files = <<>>

\* themes.py:760-768  Styles.__init__(*style)
StylesInit(o, style) ==
    /\ ~exc
    /\ ~styles[o].made
    /\ IF InitRaisesKeyError(style)
       THEN /\ last' = [op |-> "init", obj |-> o, style |-> style,
                        error |-> "KeyError", pre |-> rcParams]
            /\ UNCHANGED styles
       ELSE /\ styles' = [styles EXCEPT ![o] =
                            [made |-> TRUE,
                             theme |-> ThemeDict(MergedStyle(style)),
                             ctx |-> NoContext]]
            /\ last' = [op |-> "init", obj |-> o, style |-> style,
                        error |-> "none", pre |-> rcParams]
    /\ UNCHANGED <<rcParams, stack, exc, loggerVars>>

\* themes.py:770-782  Styles.__enter__, at the top of a with-block
StylesEnter(o) ==
    /\ ~exc
    /\ styles[o].made
    /\ Len(stack) < MaxDepth
    /\ rcParams' = set_export_text_type(rc_context_enter(rcParams, styles[o].theme))
    /\ styles' = [styles EXCEPT ![o].ctx =
                    [set |-> TRUE, orig |-> rcParams, done |-> FALSE]]
    /\ stack' = Append([i \in 1..Len(stack) |->
                          IF stack[i].obj = o
                          THEN [stack[i] EXCEPT !.reentered = TRUE]
                          ELSE stack[i]],
                       [obj |-> o, pre |-> rcParams, reentered |-> FALSE])
    /\ last' = [op |-> "enter", obj |-> o, pre |-> rcParams,
                theme |-> styles[o].theme, first |-> ~styles[o].ctx.set,
                nested |-> \E i \in 1..Len(stack) : stack[i].obj = o]
    /\ UNCHANGED <<exc, loggerVars>>

\* the block of the innermost with-statement raises
BlockRaises ==
    /\ ~exc
    /\ stack # <<>>
    /\ exc' = TRUE
    /\ last' = [op |-> "raise"]
    /\ UNCHANGED <<rcParams, styles, stack, loggerVars>>

\* an __exit__ without its last line: the theme stays on the object
StylesExitKeepsTheme ==
    /\ stack # <<>>
    /\ LET top == stack[Len(stack)]
           o == top.obj
       IN  /\ rcParams' = rc_context_exit(rcParams, styles[o].ctx)
           /\ styles' = [styles EXCEPT ![o].ctx.done = TRUE]
           /\ stack' = SubSeq(stack, 1, Len(stack) - 1)
           /\ exc' = (exc /\ ~ExitSuppresses)
           /\ last' = [op |-> "exit", obj |-> o, pre |-> top.pre,
                       reentered |-> top.reentered,
                       bare |-> styles[o].theme.isNone, raised |-> exc,
                       propagated |-> (exc /\ ~ExitSuppresses)]
    /\ UNCHANGED loggerVars

\* themes.py:784-794  Styles.__exit__, when the innermost with-block ends
\* or an exception leaves it
StylesExit ==
    /\ stack # <<>>
    /\ LET top == stack[Len(stack)]
           o == top.obj
       IN  /\ rcParams' = rc_context_exit(rcParams, styles[o].ctx)
           /\ styles' = [styles EXCEPT ![o].ctx.done = TRUE,
                                       ![o].theme = ThemeNone]
           /\ stack' = SubSeq(stack, 1, Len(stack) - 1)
           /\ exc' = (exc /\ ~ExitSuppresses)
           /\ last' = [op |-> "exit", obj |-> o, pre |-> top.pre,
                       reentered |-> top.reentered,
                       bare |-> styles[o].theme.isNone, raised |-> exc,
                       propagated |-> (exc /\ ~ExitSuppresses)]
    /\ UNCHANGED loggerVars

\* the caller catches the exception after it has left a with-block
CallerCatches ==
    /\ exc
    /\ last.op = "exit"
    /\ exc' = FALSE
    /\ last' = [op |-> "catch"]
    /\ UNCHANGED <<rcParams, styles, stack, loggerVars>>

\* one Styles object, every name of the registry and an unknown one
NextOne ==
    \/ \E style \in NameLists(StyleArgs, MaxNames) : StylesInit("A", style)
    \/ StylesEnter("A")
    \/ BlockRaises
    \/ StylesExit
    \/ CallerCatches

SpecOne == InitStyles /\ [][NextOne]_vars

\* several Styles objects whose with-blocks nest
NextStyles ==
    \/ \E o \in ObjIds, style \in NameLists(ScopeArgs, MaxNames) :
          StylesInit(o, style)
    \/ \E o \in ObjIds : StylesEnter(o)
    \/ BlockRaises
    \/ StylesExit
    \/ CallerCatches

SpecStyles == InitStyles /\ [][NextStyles]_vars

\* --------------------------------------------- ScienceLogger: operations
\* the strings given to head and subhead
HeadArgs == {"Experiment 1"}

\* every file handler of the named logger still has room in its file
FileRoom(name) ==
    \A i \in 1..Len(handlers[name]) :
        handlers[name][i].kind = "file" =>
            Len(files[handlers[name][i].path]) < MaxFileRecords

\* what an operation of the logger reports in last: the records it passed
\* to self.logger, the console writes they caused, the calls it made to the
\* table formatter, the files fig.savefig wrote, and its exception
Outcome(op, arg, error, logged, tabulated, exported) ==
    [op |-> op, arg |-> arg, error |-> error, logged |-> logged,
     console |-> IF logged = <<>> THEN <<>>
                 ELSE ConsoleWrites(handlers[logger.name], logged[1].level,
                                    logged[1].msg),
     tabulated |-> tabulated, exported |-> exported]

\* self.logger.info(msg) and its siblings: every handler of the named
\* logger is given the record
LoggerEmits(msg) ==
    files' = FileWrites(files, handlers[logger.name], msg)

\* utils.py:154-200  ScienceLogger.__init__
ScienceLoggerInit(name, directory, figures, statistics, integrity) ==
    /\ ~exc
    /\ Len(handlers[name]) + 2 <= MaxHandlers
    /\ LET arg == [name |-> name, directory |-> directory,
                   figures |-> figures, statistics |-> statistics,
                   integrity |-> integrity]
           path == stats_file(directory, name)
           withConsole ==
               IF WantsConsole(figures, statistics, integrity)
               THEN Append(handlers[name], ConsoleHandler)
               ELSE handlers[name]
           report(error, attached) ==
               [op |-> "logger_init", arg |-> arg, error |-> error,
                attached |-> attached]
       IN  IF directory \notin dirs
           THEN \* assert self.directory.is_dir(), whatever the thresholds
                /\ last' = [op |-> "logger_init",
                            arg |-> [name |-> name, directory |-> directory],
                            error |-> "AssertionError", attached |-> <<>>]
                /\ UNCHANGED <<logger, handlers, files>>
           ELSE IF /\ WantsFile(figures, statistics, integrity)
                   /\ path \notin DOMAIN files
                   /\ Parent(path) \notin dirs
           THEN \* self.stats_file.open("w") in a directory that is missing
                /\ handlers' = [handlers EXCEPT ![name] = withConsole]
                /\ last' = report("FileNotFoundError",
                                  SubSeq(withConsole, Len(handlers[name]) + 1,
                                         Len(withConsole)))
                /\ UNCHANGED <<logger, files>>
           ELSE LET withFile ==
                        IF WantsFile(figures, statistics, integrity)
                        THEN Append(withConsole, FileHandler(path))
                        ELSE withConsole
                IN  /\ handlers' = [handlers EXCEPT ![name] = withFile]
                    /\ files' =
                          IF /\ WantsFile(figures, statistics, integrity)
                             /\ path \notin DOMAIN files
                          THEN (path :> <<>>) @@ files
                          ELSE files
                    /\ logger' = [made |-> TRUE, name |-> name,
                                  directory |-> directory,
                                  FIGURES |-> figures,
                                  STATISTICS |-> statistics,
                                  INTEGRITY |-> integrity]
                    /\ last' = report("none",
                                      SubSeq(withFile, Len(handlers[name]) + 1,
                                             Len(withFile)))
    /\ UNCHANGED <<rcParams, stylesVars, dirs, datafiles>>

\* utils.py:232-238  ScienceLogger.figure(fig, name)
figure(name) ==
    /\ ~exc
    /\ logger.made
    /\ FileRoom(logger.name)
    /\ IF logger.FIGURES >= SAVE
       THEN LET path == FigurePath(logger.directory, logger.name, name)
                target == export_for_pub_path(path)
                record == [level |-> "INFO",
                           msg |-> [text |-> "Figure saved to ", path |-> path]]
            IN  /\ rcParams' = set_export_text_type(rcParams)
                /\ IF target.dir \in dirs
                   THEN /\ LoggerEmits(record.msg)
                        /\ last' = Outcome("figure", name, "none",
                                           <<record>>, 0, {target})
                   ELSE \* fig.savefig into a directory that is missing
                        /\ last' = Outcome("figure", name,
                                           "FileNotFoundError", <<>>, 0, {})
                        /\ UNCHANGED files
       ELSE /\ last' = Outcome("figure", name, "none", <<>>, 0, {})
            /\ UNCHANGED <<rcParams, files>>
    /\ UNCHANGED <<stylesVars, logger, handlers, dirs, datafiles>>

\* a stats that converts its argument before it looks at the threshold
stats_formats_first(message) ==
    /\ ~exc
    /\ logger.made
    /\ FileRoom(logger.name)
    /\ LET asPandas == IF message.type = "polars"
                       THEN PandasArg(message.data) ELSE message
           isTable == asPandas.type = "pandas"
           text == IF isTable THEN statistics_table_to_file(asPandas)
                   ELSE FormatArg(asPandas)
           record == [level |-> "INFO",
                      msg |-> TextMessage(Wrapped(_DEMARCATOR, text))]
           calls == IF isTable THEN 1 ELSE 0
       IN  IF logger.STATISTICS < SHOW
           THEN /\ last' = Outcome("stats", message, "none", <<>>, calls, {})
                /\ UNCHANGED files
           ELSE /\ LoggerEmits(record.msg)
                /\ last' = Outcome("stats", message, "none", <<record>>,
                                   calls, {})
    /\ UNCHANGED <<rcParams, stylesVars, logger, handlers, dirs,
                   datafiles>>

\* utils.py:240-251  ScienceLogger.stats(message)
stats(message) ==
    /\ ~exc
    /\ logger.made
    /\ FileRoom(logger.name)
    /\ IF logger.STATISTICS < SHOW
       THEN /\ last' = Outcome("stats", message, "none", <<>>, 0, {})
            /\ UNCHANGED files
       ELSE LET asPandas == IF message.type = "polars"
                            THEN PandasArg(message.data) ELSE message
                isTable == asPandas.type = "pandas"
                text == IF isTable THEN statistics_table_to_file(asPandas)
                        ELSE FormatArg(asPandas)
                record == [level |-> "INFO",
                           msg |-> TextMessage(Wrapped(_DEMARCATOR, text))]
            IN  /\ LoggerEmits(record.msg)
                /\ last' = Outcome("stats", message, "none", <<record>>,
                                   IF isTable THEN 1 ELSE 0, {})
    /\ UNCHANGED <<rcParams, stylesVars, logger, handlers, dirs,
                   datafiles>>

\* utils.py:253-260  ScienceLogger.integrity(message)
integrity(message) ==
    /\ ~exc
    /\ logger.made
    /\ FileRoom(logger.name)
    /\ IF logger.INTEGRITY < SHOW
       THEN /\ last' = Outcome("integrity", message, "none", <<>>, 0, {})
            /\ UNCHANGED files
       ELSE LET record == [level |-> "INFO",
                           msg |-> TextMessage(Wrapped(_DEMARCATOR,
                                                       FormatArg(message)))]
            IN  /\ LoggerEmits(record.msg)
                /\ last' = Outcome("integrity", message, "none", <<record>>,
                                   0, {})
    /\ UNCHANGED <<rcParams, stylesVars, logger, handlers, dirs,
                   datafiles>>

\* utils.py:262-267  ScienceLogger.head(message)
head(message) ==
    /\ ~exc
    /\ logger.made
    /\ FileRoom(logger.name)
    /\ LET record == [level |-> "INFO",
                      msg |-> TextMessage(Wrapped(_HEADER, message))]
       IN  /\ LoggerEmits(record.msg)
           /\ last' = Outcome("head", message, "none", <<record>>, 0, {})
    /\ UNCHANGED <<rcParams, stylesVars, logger, handlers, dirs,
                   datafiles>>

\* utils.py:269-274  ScienceLogger.subhead(message)
subhead(message) ==
    /\ ~exc
    /\ logger.made
    /\ FileRoom(logger.name)
    /\ LET record == [level |-> "INFO",
                      msg |-> TextMessage(Wrapped(_SUBHEADER, message))]
       IN  /\ LoggerEmits(record.msg)
           /\ last' = Outcome("subhead", message, "none", <<record>>, 0, {})
    /\ UNCHANGED <<rcParams, stylesVars, logger, handlers, dirs,
                   datafiles>>

\* the logger alone: constructions with every combination of thresholds,
\* then its operations
NextLogger ==
    \/ \E name \in RunNames, directory \in DirectoryArgs,
          figures \in Options, statistics \in Options, integrity_ \in Options :
          ScienceLoggerInit(name, directory, figures, statistics, integrity_)
    \/ \E name \in FigureNames : figure(name)
    \/ \E message \in MessageArgs : stats(message)
    \/ \E message \in MessageArgs : integrity(message)
    \/ \E message \in HeadArgs : head(message)
    \/ \E message \in HeadArgs : subhead(message)

SpecLogger == Init /\ [][NextLogger]_vars

\* utils.py:214-230  ScienceLogger.find_data(data_name)
find_data(data_name) ==
    /\ ~exc
    /\ logger.made
    /\ FileRoom(logger.name)
    /\ LET dir == data_directory(logger.directory, logger.name)
           matches == IF dir \in dirs
                      THEN {e \in datafiles : GlobMatches(e, data_name)}
                      ELSE {}
           branch == find_data_branch(dir, data_name, matches)
           record == [level |-> branch.level,
                      msg |-> [text |-> branch.text,
                               path |-> [dir |-> dir, file |-> data_name]]]
           logged == IF branch.level = "none" THEN <<>> ELSE <<record>>
       IN  /\ IF logged = <<>> THEN UNCHANGED files
              ELSE LoggerEmits(record.msg)
           /\ \E value \in (IF branch.returned = {} THEN {ReturnsNone}
                            ELSE branch.returned) :
                 last' = [returned |-> value,
                          raised |-> branch.error # "none",
                          matches |-> Cardinality(matches)]
                         @@ Outcome("find_data", data_name, branch.error,
                                    logged, 0, {})
    /\ UNCHANGED <<rcParams, stylesVars, logger, handlers, dirs, datafiles>>

\* the logger with a data directory that has any of the entries in it
InitFind ==
    /\ rcParams \in InitialRcParams
    /\ styles = [o \in ObjIds |-> NoObject]
    /\ stack = <<>>
    /\ exc = FALSE
    /\ logger = NoLogger
    /\ handlers = [n \in RunNames |-> <<>>]
    /\ \E fs \in InitialFileSystems : dirs = fs.dirs /\ files = fs.files
    /\ datafiles \in SUBSET DataEntries
    /\ (dirs = {BaseDirectory}) => datafiles = {}
    /\ last = [op |-> "start"]

NextFind ==
    \/ \E name \in RunNames, directory \in DirectoryArgs,
          figures \in Options, statistics \in Options, integrity_ \in Options :
          ScienceLoggerInit(name, directory, figures, statistics, integrity_)
    \/ \E data_name \in DataNames : find_data(data_name)

SpecFind == InitFind /\ [][NextFind]_vars

\* the paths given to export_for_pub by a caller: one without the .pdf
\* suffix and one with it
ExportPaths ==
    { [dir |-> figures_directory(BaseDirectory, n), file |-> f] :
         n \in RunNames, f \in {<<"p">>, <<"p">> \o Pdf} }

\* themes.py:47-62  export_for_pub(fig, path)
export_for_pub(path) ==
    /\ ~exc
    /\ LET target == export_for_pub_path(path)
       IN  last' = IF target.dir \in dirs
                   THEN [op |-> "export", arg |-> path, error |-> "none",
                         exported |-> {target}]
                   ELSE [op |-> "export", arg |-> path,
                         error |-> "FileNotFoundError", exported |-> {}]
    /\ UNCHANGED <<rcParams, stylesVars, loggerVars>>

\* everything that touches rcParams: with-blocks of the Styles objects,
\* export_for_pub, and figure calls of a logger, inside or outside a block
NextScoped ==
    \/ \E o \in ObjIds, style \in NameLists(ScopeArgs, 1) :
          StylesInit(o, style)
    \/ \E o \in ObjIds : StylesEnter(o)
    \/ BlockRaises
    \/ StylesExit
    \/ CallerCatches
    \/ \E path \in ExportPaths : export_for_pub(path)
    \/ \E name \in RunNames, figures \in Options :
          ScienceLoggerInit(name, BaseDirectory, figures, SKIP, SKIP)
    \/ \E name \in FigureNames : figure(name)

SpecScoped == InitStyles /\ [][NextScoped]_vars

\* ================================================================ claims

\* the positions of a list of names whose preset has the key k
Holders(style, k) == {i \in 1..Len(style) : k \in DOMAIN __styles__[style[i]]}

\* the smallest element of a non-empty set of positions
Lowest(S) == CHOOSE i \in S : \A j \in S : i <= j

\* {**sn, ..., **s2, **s1}: the presets written from the last to the first
RECURSIVE OverrideFrom(_, _)
OverrideFrom(style, i) ==
    IF i = Len(style) THEN __styles__[style[i]]
    ELSE __styles__[style[i]] @@ OverrideFrom(style, i + 1)

\* C1: for every list of registered names, the dictionary a new Styles
\* object holds has the union of the presets' keys, takes each key from the
\* lowest-index preset that has it, and equals {**sn, ..., **s2, **s1}.
C1_MergeFirstWins ==
    (last.op = "init" /\ last.error = "none") =>
        LET style == last.style
            d == styles[last.obj].theme.dict
        IN  /\ ~styles[last.obj].theme.isNone
            /\ DOMAIN d = UNION {DOMAIN __styles__[style[i]] : i \in 1..Len(style)}
            /\ \A k \in DOMAIN d :
                  d[k] = __styles__[style[Lowest(Holders(style, k))]][k]
            /\ d = OverrideFrom(style, 1)

\* C1 witness: two different presets that disagree on a key were merged and
\* the first one's value was kept
C1_Witness ==
    /\ last.op = "init"
    /\ last.error = "none"
    /\ Len(last.style) = 2
    /\ \E k \in DOMAIN __styles__[last.style[1]] \cap DOMAIN __styles__[last.style[2]] :
          /\ __styles__[last.style[1]][k] # __styles__[last.style[2]][k]
          /\ styles[last.obj].theme.dict[k] = __styles__[last.style[1]][k]

C3_NestedExitRestores ==
    (last.op = "exit" /\ ~last.reentered) => rcParams = last.pre

\* C3 witness: an inner scope has exited while a scope of another object is
\* still open, and rcParams is again the outer scope's configuration, which
\* is not the configuration before the outer scope
C3_Witness ==
    /\ last.op = "exit"
    /\ ~last.reentered
    /\ stack # <<>>
    /\ \A i \in 1..Len(stack) : stack[i].obj # last.obj
    /\ rcParams = last.pre
    /\ rcParams # stack[1].pre

\* C4: the first entry of a new Styles object from C makes rcParams equal to
\* C overlaid with the merged dictionary and then with the four forced
\* flags: a forced key has the forced value, another key of the dictionary
\* has the dictionary's value, and every other key keeps its value from C.
C4_EnterOverlaysThenForces ==
    (last.op = "enter" /\ last.first) =>
        /\ ~last.theme.isNone
        /\ \A k \in RcKeys :
              rcParams[k] =
                 IF k = "pdf.fonttype" THEN "42"
                 ELSE IF k = "ps.fonttype" THEN "42"
                 ELSE IF k = "font.family" THEN "'sans-serif'"
                 ELSE IF k = "font.sans-serif" THEN "['Arial']"
                 ELSE IF k \in DOMAIN last.theme.dict THEN last.theme.dict[k]
                 ELSE last.pre[k]

\* C4 witness: a style whose own font list is not the forced one was entered
\* from a configuration that had other values for the forced flags
C4_Witness ==
    /\ last.op = "enter"
    /\ last.first
    /\ "font.sans-serif" \in DOMAIN last.theme.dict
    /\ last.theme.dict["font.sans-serif"] # "['Arial']"
    /\ last.pre["pdf.fonttype"] # "42"
    /\ rcParams["font.sans-serif"] = "['Arial']"

\* C5: a list of names with an unknown name at any position makes
\* Styles(...) raise KeyError: no object is made and rcParams is unchanged.
C5_UnknownNameRaises ==
    (/\ last.op = "init"
     /\ \E i \in 1..Len(last.style) : last.style[i] \notin DOMAIN __styles__) =>
        /\ last.error = "KeyError"
        /\ ~styles[last.obj].made
        /\ rcParams = last.pre

\* C5 witness: the first name is registered, a later one is not, and the
\* construction raised
C5_Witness ==
    /\ last.op = "init"
    /\ Len(last.style) > 1
    /\ last.style[1] \in DOMAIN __styles__
    /\ last.style[Len(last.style)] \notin DOMAIN __styles__
    /\ last.error = "KeyError"

\* the run directory of the logger that was just constructed, and its files
RunDirectory(arg) == arg.directory \o <<arg.name>>
RunFigures(arg) == arg.directory \o <<arg.name, "figures">>
RunLogFile(arg) ==
    arg.directory \o <<arg.name, "stats", arg.name \o "_stats.txt">>

\* the construction was given a base directory that exists
ConstructedInBase == last.op = "logger_init" /\ last.arg.directory \in dirs

\* C6: after a construction in an existing base directory with any of the
\* three thresholds at SAVE or above, the construction has succeeded, the
\* run directory and its figures directory exist, the log file exists, and
\* a file sink for it is attached to the named logger.
C6_SaveMakesRunFiles ==
    (/\ ConstructedInBase
     /\ \E t \in {last.arg.figures, last.arg.statistics, last.arg.integrity} :
           t >= 2) =>
        /\ last.error = "none"
        /\ RunDirectory(last.arg) \in dirs
        /\ RunFigures(last.arg) \in dirs
        /\ RunLogFile(last.arg) \in DOMAIN files
        /\ \E i \in 1..Len(last.attached) :
              /\ last.attached[i].kind = "file"
              /\ last.attached[i].path = RunLogFile(last.arg)

\* C7: a construction in an existing base directory attaches a console sink
\* to the named logger exactly when one of the three thresholds is SHOW or
\* above, and attaches no more than one.
C7_ConsoleIffShown ==
    ConstructedInBase =>
        LET shown == \/ last.arg.figures >= 1
                     \/ last.arg.statistics >= 1
                     \/ last.arg.integrity >= 1
            added == {i \in 1..Len(last.attached) :
                         last.attached[i].kind = "console"}
            held == handlers[last.arg.name]
        IN  /\ Cardinality(added) = IF shown THEN 1 ELSE 0
            /\ Len(held) >= Len(last.attached)
            /\ SubSeq(held, Len(held) - Len(last.attached) + 1, Len(held))
                  = last.attached

\* C7 witness: only the figures threshold was at SHOW and the console sink
\* was attached
C7_Witness ==
    /\ ConstructedInBase
    /\ last.arg.figures = 1
    /\ last.arg.statistics = 0
    /\ last.arg.integrity = 0
    /\ last.attached = <<[kind |-> "console", path |-> <<>>]>>
    /\ handlers[last.arg.name] # <<>>

\* C8: figure(fig, name) with the figures threshold at SAVE or above writes
\* exactly <figures_directory>/<name>.pdf and logs one INFO record naming
\* that path; with any other figures threshold it writes nothing, logs
\* nothing and changes no state.
C8_FigureExportsAndLogs ==
    [][ (last'.op = "figure") =>
          LET path == [dir |-> logger.directory \o <<logger.name, "figures">>,
                       file |-> last'.arg \o <<".", "p", "d", "f">>]
          IN  IF logger.FIGURES >= 2
              THEN /\ last'.error = "none"
                   /\ last'.exported = {path}
                   /\ last'.logged =
                         <<[level |-> "INFO",
                            msg |-> [text |-> "Figure saved to ",
                                     path |-> path]]>>
              ELSE /\ last'.error = "none"
                   /\ last'.exported = {}
                   /\ last'.logged = <<>>
                   /\ last'.console = <<>>
                   /\ UNCHANGED <<rcParams, stylesVars, loggerVars>> ]_vars

\* a banner line of 80 characters: n times the character c between ends
Line80(end, c) == end \o Rep(c, 80 - 2 * Len(end)) \o end

\* the one INFO record whose text is a message between two banner lines
OneRecord(banner, text) ==
    <<[level |-> "INFO",
       msg |-> [text |-> banner \o "\n" \o text \o "\n" \o banner,
                path |-> NoPath]]>>

\* C9: stats(x) and integrity(x) with their threshold at SHOW or above log
\* one record between two lines of 80 dashes; a table is converted once by
\* the table formatter (width 10, '.3f', heavy grid), a string is logged as
\* it is.
C9_TablesAreFormatted ==
    (\/ last.op = "stats" /\ logger.STATISTICS >= 1
     \/ last.op = "integrity" /\ logger.INTEGRITY >= 1) =>
        IF last.arg.type = "str"
        THEN /\ last.tabulated = 0
             /\ last.logged = OneRecord(Line80("", "-"), last.arg.data)
        ELSE /\ last.tabulated = 1
             /\ last.logged =
                   OneRecord(Line80("", "-"),
                             tabulate(last.arg.data, ".3f", "heavy_grid", "10"))

FindOutcome(m, out) ==
    IF m = 0
    THEN /\ out.error = "FileNotFoundError"
         /\ Len(out.logged) = 1
         /\ out.logged[1].level = "ERROR"
    ELSE IF m = 1
    THEN /\ out.error = "none"
         /\ out.logged = <<>>
         /\ ~out.returned.none
         /\ out.returned.path.dir = logger.directory \o <<logger.name, "data">>
         /\ out.returned.path.file \in datafiles
         /\ GlobMatches(out.returned.path.file, out.arg)
    ELSE /\ out.error = "none"
         /\ Len(out.logged) = 1
         /\ out.logged[1].level = "WARNING"
         /\ out.returned.none

\* the number of entries of the data directory that hold the name
MatchCount(name) ==
    IF (logger.directory \o <<logger.name, "data">>) \in dirs
    THEN Cardinality({e \in datafiles :
            \E i \in 1..Len(e) : \E j \in i..Len(e) : SubSeq(e, i, j) = name})
    ELSE 0

C12_BelowShowIsSilent ==
    [][ (\/ last'.op = "stats" /\ logger.STATISTICS < 1
         \/ last'.op = "integrity" /\ logger.INTEGRITY < 1) =>
          /\ last'.logged = <<>>
          /\ last'.console = <<>>
          /\ last'.tabulated = 0
          /\ last'.error = "none"
          /\ UNCHANGED <<files, handlers, dirs, datafiles, logger, rcParams>> ]_vars

\* C12 witness: stats was given a table by a logger whose statistics
\* threshold is SKIP while its integrity threshold is SAVE and its sinks
\* are attached, and nothing was logged
C12_Witness ==
    /\ last.op = "stats"
    /\ last.arg.type # "str"
    /\ logger.STATISTICS = 0
    /\ logger.INTEGRITY = 2
    /\ Len(handlers[logger.name]) >= 2
    /\ last.logged = <<>>
    /\ last.tabulated = 0

SinksOf(name, kind) ==
    {i \in 1..Len(handlers[name]) : handlers[name][i].kind = kind}

\* the operations of a logger that may log a record
LoggingOps == {"figure", "stats", "integrity", "head", "subhead", "find_data"}

\* C14: whatever constructions were made, a named logger holds at most one
\* console sink and at most one file sink, so a record is written at most
\* once to the console.
C14_OneSinkOfEachKind ==
    /\ \A name \in RunNames :
          /\ Cardinality(SinksOf(name, "console")) <= 1
          /\ Cardinality(SinksOf(name, "file")) <= 1
    /\ (last.op \in LoggingOps) => Len(last.console) <= Len(last.logged)

\* C15: whenever no Styles scope is open, rcParams has the value it had at
\* the start.  (The two starting configurations differ on every key that
\* is not a forced flag and no operation writes either one's values, so
\* rcParams is the starting configuration exactly when it is one of them.)
C15_OutsideScopesRcIsInitial ==
    (stack = <<>>) => rcParams \in InitialRcParams

\* C16: a record of stats, integrity or figure is written to the console
\* only if that category's threshold is SHOW or above, and appended to a
\* file only if that category's threshold is SAVE or above.
C16_OwnThresholdRoutes ==
    [][ \A cat \in { [op |-> "stats", level |-> logger.STATISTICS],
                     [op |-> "integrity", level |-> logger.INTEGRITY],
                     [op |-> "figure", level |-> logger.FIGURES] } :
          (last'.op = cat.op) =>
             /\ (last'.console # <<>>) => cat.level >= 1
             /\ (files' # files) => cat.level >= 2 ]_vars

\* C17: __exit__ leaves the object's theme None; an entry of an object
\* whose theme is None changes only the four forced flags; and the exit of
\* that scope restores the configuration from just before that entry, as
\* long as the object was not entered once more inside it.
C17_SingleUse ==
    /\ (last.op = "exit") => styles[last.obj].theme.isNone
    /\ (last.op = "enter" /\ ~last.first /\ ~last.nested) => last.theme.isNone
    /\ (last.op = "enter" /\ last.theme.isNone) =>
          \A k \in RcKeys :
             rcParams[k] =
                IF k = "pdf.fonttype" THEN "42"
                ELSE IF k = "ps.fonttype" THEN "42"
                ELSE IF k = "font.family" THEN "'sans-serif'"
                ELSE IF k = "font.sans-serif" THEN "['Arial']"
                ELSE last.pre[k]
    /\ (last.op = "exit" /\ last.bare /\ ~last.reentered) =>
          rcParams = last.pre

\* C17 witness: an object that had been used once was entered again from a
\* configuration without the forced flags, and its second scope has exited
\* and put that configuration back
C17_Witness ==
    /\ last.op = "exit"
    /\ last.bare
    /\ ~last.reentered
    /\ last.pre["pdf.fonttype"] # "42"
    /\ rcParams = last.pre
    /\ stack = <<>>

====
